---- MODULE Spec2Model ----
(***************************************************************************)
(* Model of Logic/Environment.py (uArmCreatorStudio): the Environment      *)
(* object, its settings document (load, reconcile, update, persist) and    *)
(* the start-up / shutdown calls it makes on its collaborators.            *)
(***************************************************************************)
EXTENDS Integers, Sequences, FiniteSets, TLC

\* ------------------------------------------------------------------------
\* Bounds
\* ------------------------------------------------------------------------
MaxCalls == 2        \* API calls made on one Environment after construction
MaxDocKeys == 2      \* keys of a generated top-level mapping on disk
MaxNestedKeys == 1   \* keys of a generated nested mapping on disk

\* ------------------------------------------------------------------------
\* Python / JSON values.  Every value is a record with the same fields:
\*   t : the type tag, v : the text of a scalar, m : the items of a dict.
\* ------------------------------------------------------------------------
NoItems == [k \in {} |-> 0]

Scalar(t, v) == [t |-> t, v |-> v, m |-> NoItems]
None == Scalar("null", "")
True == Scalar("bool", "true")
False == Scalar("bool", "false")
Num(v) == Scalar("num", v)
Str(v) == Scalar("str", v)
List(v) == Scalar("list", v)     \* a list holding the one string v ("" : the empty list)
Tuple(v) == Scalar("tuple", v)   \* a tuple holding the one string v
Dict(f) == [t |-> "dict", v |-> "", m |-> f]

\* isinstance(x, dict)
isinstance_dict(x) == x.t = "dict"

\* Markers that are not Python values: no object / an exception that left a call
NoDoc == Scalar("none", "")
TypeError == Scalar("TypeError", "")

\* `key in container` of Python: membership for a dict, element test for a
\* list, substring test for a str (among the strings used here no string
\* properly contains a schema key, so the substring test is equality);
\* every other type raises TypeError.
CanContain(c) == c.t \in {"dict", "list", "tuple", "str"}
Contains(c, key) ==
    IF c.t = "dict" THEN key \in DOMAIN c.m
    ELSE c.v = key

\* `for key in x` of Python.  The values iterated here are values of the
\* default schema (a dict, None or a bool): only the dict is iterable.
Iterable(x) == x.t = "dict"

\* ------------------------------------------------------------------------
\* defaultSettings of __loadSettings
\* ------------------------------------------------------------------------
motionCalibrationsDefault ==
    Dict([k \in {"stationaryMovement", "activeMovement"} |-> None])

coordCalibrationsDefault ==
    Dict([k \in {"ptPairs", "failPts", "groundPos"} |-> None])

consoleSettingsDefault ==
    Dict([k \in {"wordWrap", "robot", "vision", "serial", "interpreter", "script", "gui", "other"} |->
            IF k \in {"wordWrap", "serial", "gui"} THEN False ELSE True])

defaultSettings ==
    Dict([k \in {"robotID", "cameraID", "motionCalibrations", "coordCalibrations",
                 "consoleSettings", "windowGeometry", "windowState", "lastOpenedFile"} |->
            CASE k = "motionCalibrations" -> motionCalibrationsDefault
              [] k = "coordCalibrations" -> coordCalibrationsDefault
              [] k = "consoleSettings" -> consoleSettingsDefault
              [] OTHER -> None])

\* ------------------------------------------------------------------------
\* updateDictionary(default, new): the reconciliation of __loadSettings.
\* The Python function mutates `default` in place; the operator returns the
\* mutated default, or TypeError when a statement of the loop raises (the
\* exception leaves __loadSettings, so the half-updated default is lost).
\* ------------------------------------------------------------------------
RECURSIVE updateDictionary(_, _)
updateDictionary(default, new) ==
    IF ~Iterable(default) THEN TypeError                  \* for key in default
    ELSE IF DOMAIN default.m = {} THEN default            \* no iteration
    ELSE IF ~CanContain(new) THEN TypeError               \* if key in new
    ELSE IF \E key \in DOMAIN default.m :
                Contains(new, key) /\ ~isinstance_dict(new) THEN TypeError   \* new[key] on a list / str
    ELSE LET sub == [key \in DOMAIN default.m |->
                        IF ~Contains(new, key) THEN default.m[key]
                        ELSE IF isinstance_dict(new.m[key])
                             THEN updateDictionary(default.m[key], new.m[key])
                             ELSE new.m[key]]
         IN IF \E key \in DOMAIN sub : sub[key] = TypeError THEN TypeError
            ELSE Dict(sub)

\* ------------------------------------------------------------------------
\* The settings file: absent, unreadable, malformed text, or JSON text
\* (modelled by the value json.load returns for it).
\* ------------------------------------------------------------------------
FileAbsent == Scalar("absent", "")
FileUnreadable == Scalar("unreadable", "")
FileMalformed == Scalar("malformed", "")
IsFileError(file) == file.t \in {"absent", "unreadable", "malformed"}

\* (variant: the ValueError of json.load is not caught)
loadSettings_uncaught(file) ==
    IF file.t \in {"absent", "unreadable"} THEN [err |-> "none", doc |-> defaultSettings]
    ELSE IF file.t = "malformed" THEN [err |-> "ValueError", doc |-> NoDoc]
    ELSE LET merged == updateDictionary(defaultSettings, file)
         IN IF merged = TypeError THEN [err |-> "TypeError", doc |-> NoDoc]
            ELSE [err |-> "none", doc |-> merged]

\* __loadSettings: [err, doc].  IOError (open) and ValueError (json.load) are
\* caught and the defaults returned; anything updateDictionary raises leaves
\* the method.
loadSettings(file) ==
    IF file.t \in {"absent", "unreadable"} THEN [err |-> "none", doc |-> defaultSettings]
    ELSE IF file.t = "malformed" THEN [err |-> "none", doc |-> defaultSettings]
    ELSE LET merged == updateDictionary(defaultSettings, file)
         IN IF merged = TypeError THEN [err |-> "TypeError", doc |-> NoDoc]
            ELSE [err |-> "none", doc |-> merged]

\* ------------------------------------------------------------------------
\* json.dump: a tuple is written as a list, every other value as itself
\* ------------------------------------------------------------------------
RECURSIVE jsonDump(_)
jsonDump(x) ==
    IF x.t = "tuple" THEN List(x.v)
    ELSE IF x.t = "dict" THEN Dict([k \in DOMAIN x.m |-> jsonDump(x.m[k])])
    ELSE x

\* `a == b` of Python: bool is a subclass of int (True == 1, False == 0),
\* values of different types are unequal, dicts compare item by item.
NumericValue(x) == IF x.t = "bool" THEN (IF x.v = "true" THEN "1" ELSE "0") ELSE x.v

RECURSIVE PyEq(_, _)
PyEq(a, b) ==
    IF a.t \in {"bool", "num"} /\ b.t \in {"bool", "num"} THEN NumericValue(a) = NumericValue(b)
    ELSE IF a.t # b.t THEN FALSE
    ELSE IF a.t = "dict"
         THEN /\ DOMAIN a.m = DOMAIN b.m
              /\ \A k \in DOMAIN a.m : PyEq(a.m[k], b.m[k])
    ELSE a.v = b.v

\* ------------------------------------------------------------------------
\* Objects and references.  An object a caller holds is [val, ref]: its
\* value and which live object of the Environment it is ("settings": the
\* settings dictionary itself, a category name: the object stored under that
\* category, "arg": the object passed to updateSettings, "own": an object
\* nothing else refers to).  deepcopy returns an object of its own.
\* ------------------------------------------------------------------------
\* (variant: the object itself is handed on, not a copy)
deepcopy_alias(obj) == obj

deepcopy(obj) == [val |-> obj.val, ref |-> "own"]

\* ------------------------------------------------------------------------
\* State
\* ------------------------------------------------------------------------
VARIABLES
    phase,      \* "Uninitialized", "Ready" (__init__ returned), "Aborted" (__init__ raised), "Closed" (close was called)
    disk,       \* the file at settingsPath
    settings,   \* self.__settings
    vStream,    \* self.__vStream : [camera, ended, running]
    robot,      \* self.__robot   : [uArm, exiting, running]
    vision,     \* self.__vision  : [exiting]
    initLog,    \* the calls __init__ made, in order
    closeLog,   \* the calls the latest close() made, in order
    writes,     \* how many times the persist statement of updateSettings ran
    calls,      \* API calls made after construction
    last,       \* the latest call: [op, category, value, result]
    held        \* the object the caller holds: [val, ref]

vars == <<phase, disk, settings, vStream, robot, vision, initLog, closeLog, writes, calls, last, held>>

Call(op, category, value, result) ==
    [op |-> op, category |-> category, value |-> value, result |-> result]

\* ------------------------------------------------------------------------
\* Collaborators (Video.VideoStream, Robot.Robot, Vision): an activation may
\* succeed, report failure or raise; a stop signal may return or raise.
\* An activated video stream and an activated robot run a background loop.
\* setExiting only sets the flag the loop polls; endThread ends the
\* acquisition loop and releases the device.
\* ------------------------------------------------------------------------
ActivationOutcomes == {"ok", "fail", "raise"}
SignalOutcomes == {"ok", "raise"}

setNewCamera(vs, cameraID, outcome) ==
    IF outcome = "ok" THEN [vs EXCEPT !.camera = cameraID, !.running = TRUE] ELSE vs

setUArm(rb, robotID, outcome) ==
    IF outcome = "ok" THEN [rb EXCEPT !.uArm = robotID, !.running = TRUE] ELSE rb

setExiting(h, outcome) ==
    IF outcome = "ok" THEN [h EXCEPT !.exiting = TRUE] ELSE h

endThread(vs, outcome) ==
    IF outcome = "ok" THEN [vs EXCEPT !.ended = TRUE, !.running = FALSE] ELSE vs

NewVideoStream == [camera |-> None, ended |-> FALSE, running |-> FALSE]
NewRobot == [uArm |-> None, exiting |-> FALSE, running |-> FALSE]
NewVision == [exiting |-> FALSE]

Step(call, arg) == [call |-> call, arg |-> arg]

\* ------------------------------------------------------------------------
\* Environment.__init__
\* ------------------------------------------------------------------------
\* (variant: the objects are created before the settings are loaded)
init_handlesBeforeLoad(file, camOut, robOut) ==
    LET loaded == loadSettings(file)
        loadedLog == <<Step("Global.init", None), Step("__loadSettings", None)>>
        builtLog == <<Step("Global.init", None), Step("VideoStream", None), Step("Robot", None),
                      Step("Vision", None), Step("ObjectManager", None), Step("__loadSettings", None)>>
    IN  IF loaded.err # "none"
        THEN [phase |-> "Aborted", settings |-> NoDoc, vStream |-> NewVideoStream, robot |-> NewRobot,
              log |-> loadedLog, result |-> loaded.err]
        ELSE
        LET cameraID == loaded.doc.m["cameraID"]
            robotID == loaded.doc.m["robotID"]
            camTried == cameraID # None
            camLog == IF camTried THEN builtLog \o <<Step("setNewCamera", cameraID)>> ELSE builtLog
            vs == IF camTried THEN setNewCamera(NewVideoStream, cameraID, camOut) ELSE NewVideoStream
        IN  IF camTried /\ camOut = "raise"
            THEN [phase |-> "Aborted", settings |-> loaded.doc, vStream |-> vs, robot |-> NewRobot,
                  log |-> camLog, result |-> "setNewCamera raised"]
            ELSE
            LET robTried == robotID # None
                robLog == IF robTried THEN camLog \o <<Step("setUArm", robotID)>> ELSE camLog
                rb == IF robTried THEN setUArm(NewRobot, robotID, robOut) ELSE NewRobot
            IN  IF robTried /\ robOut = "raise"
                THEN [phase |-> "Aborted", settings |-> loaded.doc, vStream |-> vs, robot |-> rb,
                      log |-> robLog, result |-> "setUArm raised"]
                ELSE [phase |-> "Ready", settings |-> loaded.doc, vStream |-> vs, robot |-> rb,
                      log |-> robLog, result |-> "ok"]

\* The outcome of __init__ on the file `file` when the two activations, if
\* attempted, end as camOut and robOut.
init(file, camOut, robOut) ==
    LET loaded == loadSettings(file)
        loadedLog == <<Step("Global.init", None), Step("__loadSettings", None)>>
        builtLog == loadedLog \o <<Step("VideoStream", None), Step("Robot", None),
                                   Step("Vision", None), Step("ObjectManager", None)>>
    IN  IF loaded.err # "none"
        THEN [phase |-> "Aborted", settings |-> NoDoc, vStream |-> NewVideoStream, robot |-> NewRobot,
              log |-> loadedLog, result |-> loaded.err]
        ELSE
        LET cameraID == loaded.doc.m["cameraID"]
            robotID == loaded.doc.m["robotID"]
            camTried == cameraID # None
            camLog == IF camTried THEN builtLog \o <<Step("setNewCamera", cameraID)>> ELSE builtLog
            vs == IF camTried THEN setNewCamera(NewVideoStream, cameraID, camOut) ELSE NewVideoStream
        IN  IF camTried /\ camOut = "raise"
            THEN [phase |-> "Aborted", settings |-> loaded.doc, vStream |-> vs, robot |-> NewRobot,
                  log |-> camLog, result |-> "setNewCamera raised"]
            ELSE
            LET robTried == robotID # None
                robLog == IF robTried THEN camLog \o <<Step("setUArm", robotID)>> ELSE camLog
                rb == IF robTried THEN setUArm(NewRobot, robotID, robOut) ELSE NewRobot
            IN  IF robTried /\ robOut = "raise"
                THEN [phase |-> "Aborted", settings |-> loaded.doc, vStream |-> vs, robot |-> rb,
                      log |-> robLog, result |-> "setUArm raised"]
                ELSE [phase |-> "Ready", settings |-> loaded.doc, vStream |-> vs, robot |-> rb,
                      log |-> robLog, result |-> "ok"]

Construct ==
    /\ phase = "Uninitialized"
    /\ \E camOut \in ActivationOutcomes, robOut \in ActivationOutcomes :
         LET r == init(disk, camOut, robOut)
         IN  /\ phase' = r.phase
             /\ settings' = r.settings
             /\ vStream' = r.vStream
             /\ robot' = r.robot
             /\ vision' = NewVision
             /\ initLog' = r.log
             /\ last' = Call("__init__", "", None, r.result)
    /\ UNCHANGED <<disk, closeLog, writes, calls, held>>

\* ------------------------------------------------------------------------
\* Environment.updateSettings
\* ------------------------------------------------------------------------
\* json.dump(self.__settings, open(self.__settingsPath, 'w'), ...): open may
\* fail (the file is left as it was), or open truncates the file and the dump
\* fails before the text is complete, or the whole text is written.
WriteOutcomes == {"ok", "openFails", "dumpFails"}

write(file, doc, outcome) ==
    IF outcome = "ok" THEN jsonDump(doc)
    ELSE IF outcome = "openFails" THEN file
    ELSE FileMalformed

\* (variant: the test `newSettings is not None` is missing)
updateSettings_noNoneCheck(doc, file, category, newSettings, outcome) ==
    IF category \notin DOMAIN doc.m
    THEN [settings |-> doc, disk |-> file, wrote |-> FALSE, result |-> "KeyError", stored |-> "none"]
    ELSE
    LET current == doc.m[category]
    IN  IF (current = None \/ ~PyEq(current, newSettings.val))
        THEN LET copy == deepcopy(newSettings)
                 updated == [doc EXCEPT !.m[category] = copy.val]
             IN  [settings |-> updated,
                  disk |-> write(file, updated, outcome),
                  wrote |-> TRUE,
                  result |-> IF outcome = "ok" THEN "saved" ELSE "IOError",
                  stored |-> copy.ref]
        ELSE [settings |-> doc, disk |-> file, wrote |-> FALSE, result |-> "unchanged", stored |-> "none"]

\* (variant: the comparison with the current value is missing)
updateSettings_noCompare(doc, file, category, newSettings, outcome) ==
    IF category \notin DOMAIN doc.m
    THEN [settings |-> doc, disk |-> file, wrote |-> FALSE, result |-> "KeyError", stored |-> "none"]
    ELSE
    LET current == doc.m[category]
    IN  IF newSettings.val # None
        THEN LET copy == deepcopy(newSettings)
                 updated == [doc EXCEPT !.m[category] = copy.val]
             IN  [settings |-> updated,
                  disk |-> write(file, updated, outcome),
                  wrote |-> TRUE,
                  result |-> IF outcome = "ok" THEN "saved" ELSE "IOError",
                  stored |-> copy.ref]
        ELSE [settings |-> doc, disk |-> file, wrote |-> FALSE, result |-> "unchanged", stored |-> "none"]

\* (variant: the dictionary is updated only once the file is written)
updateSettings_writeFirst(doc, file, category, newSettings, outcome) ==
    IF category \notin DOMAIN doc.m
    THEN [settings |-> doc, disk |-> file, wrote |-> FALSE, result |-> "KeyError", stored |-> "none"]
    ELSE
    LET current == doc.m[category]
    IN  IF (current = None \/ ~PyEq(current, newSettings.val)) /\ newSettings.val # None
        THEN LET copy == deepcopy(newSettings)
                 updated == [doc EXCEPT !.m[category] = copy.val]
             IN  [settings |-> IF outcome = "ok" THEN updated ELSE doc,
                  disk |-> write(file, updated, outcome),
                  wrote |-> TRUE,
                  result |-> IF outcome = "ok" THEN "saved" ELSE "IOError",
                  stored |-> copy.ref]
        ELSE [settings |-> doc, disk |-> file, wrote |-> FALSE, result |-> "unchanged", stored |-> "none"]

\* (variant: the file is written before the dictionary is updated)
updateSettings_dumpBeforeAssign(doc, file, category, newSettings, outcome) ==
    IF category \notin DOMAIN doc.m
    THEN [settings |-> doc, disk |-> file, wrote |-> FALSE, result |-> "KeyError", stored |-> "none"]
    ELSE
    LET current == doc.m[category]
    IN  IF (current = None \/ ~PyEq(current, newSettings.val)) /\ newSettings.val # None
        THEN LET copy == deepcopy(newSettings)
                 updated == [doc EXCEPT !.m[category] = copy.val]
             IN  [settings |-> updated,
                  disk |-> write(file, doc, outcome),
                  wrote |-> TRUE,
                  result |-> IF outcome = "ok" THEN "saved" ELSE "IOError",
                  stored |-> copy.ref]
        ELSE [settings |-> doc, disk |-> file, wrote |-> FALSE, result |-> "unchanged", stored |-> "none"]

\* (variant: a category that is not in the dictionary is created)
updateSettings_createsKey(doc, file, category, newSettings, outcome) ==
    LET current == IF category \in DOMAIN doc.m THEN doc.m[category] ELSE None
    IN  IF (current = None \/ ~PyEq(current, newSettings.val)) /\ newSettings.val # None
        THEN LET copy == deepcopy(newSettings)
                 updated == [doc EXCEPT !.m = [k \in DOMAIN doc.m \cup {category} |->
                                                 IF k = category THEN copy.val ELSE doc.m[k]]]
             IN  [settings |-> updated,
                  disk |-> write(file, updated, outcome),
                  wrote |-> TRUE,
                  result |-> IF outcome = "ok" THEN "saved" ELSE "IOError",
                  stored |-> copy.ref]
        ELSE [settings |-> doc, disk |-> file, wrote |-> FALSE, result |-> "unchanged", stored |-> "none"]

\* newSettings is the caller's object [val, ref]
updateSettings(doc, file, category, newSettings, outcome) ==
    IF category \notin DOMAIN doc.m
    THEN [settings |-> doc, disk |-> file, wrote |-> FALSE, result |-> "KeyError", stored |-> "none"]
    ELSE
    LET current == doc.m[category]
    IN  IF (current = None \/ ~PyEq(current, newSettings.val)) /\ newSettings.val # None
        THEN LET copy == deepcopy(newSettings)
                 updated == [doc EXCEPT !.m[category] = copy.val]
             IN  [settings |-> updated,
                  disk |-> write(file, updated, outcome),
                  wrote |-> TRUE,
                  result |-> IF outcome = "ok" THEN "saved" ELSE "IOError",
                  stored |-> copy.ref]
        ELSE [settings |-> doc, disk |-> file, wrote |-> FALSE, result |-> "unchanged", stored |-> "none"]

CallCategories == {"robotID", "cameraID", "motionCalibrations", "notACategory"}

CallValues ==
    {None, Str("5"), True, Num("1"), Tuple("5"),
     Dict([k \in {"stationaryMovement"} |-> Num("1")]),
     Dict([k \in {"stationaryMovement", "activeMovement"} |->
             IF k = "stationaryMovement" THEN Num("1") ELSE None])}

\* The Environment object exists and can be called
Constructed == phase \in {"Ready", "Closed"}

UpdateSettings ==
    /\ Constructed
    /\ calls < MaxCalls
    /\ \E category \in CallCategories, value \in CallValues, outcome \in WriteOutcomes :
         LET r == updateSettings(settings, disk, category, [val |-> value, ref |-> "arg"], outcome)
         IN  /\ settings' = r.settings
             /\ disk' = r.disk
             /\ writes' = IF r.wrote THEN writes + 1 ELSE writes
             /\ last' = Call("updateSettings", category, value, r.result)
             /\ held' = [val |-> value, ref |-> IF r.stored = "arg" THEN category ELSE "own"]
    /\ calls' = calls + 1
    /\ UNCHANGED <<phase, vStream, robot, vision, initLog, closeLog>>

\* ------------------------------------------------------------------------
\* Environment.getSettings / Environment.getSetting
\* ------------------------------------------------------------------------
getSettings(doc) == deepcopy([val |-> doc, ref |-> "settings"])

getSetting(doc, category) == deepcopy([val |-> doc.m[category], ref |-> category])

GetSettings ==
    /\ Constructed
    /\ calls < MaxCalls
    /\ held' = getSettings(settings)
    /\ last' = Call("getSettings", "", held'.val, "ok")
    /\ calls' = calls + 1
    /\ UNCHANGED <<phase, disk, settings, vStream, robot, vision, initLog, closeLog, writes>>

GetSetting ==
    /\ Constructed
    /\ calls < MaxCalls
    /\ \E category \in CallCategories :
         IF category \in DOMAIN settings.m
         THEN /\ held' = getSetting(settings, category)
              /\ last' = Call("getSetting", category, held'.val, "ok")
         ELSE /\ held' = held
              /\ last' = Call("getSetting", category, None, "KeyError")
    /\ calls' = calls + 1
    /\ UNCHANGED <<phase, disk, settings, vStream, robot, vision, initLog, closeLog, writes>>

\* ------------------------------------------------------------------------
\* The caller changes the dictionary it holds (one item set or added, at the
\* top or one level down).  Whatever is the same object changes with it.
\* ------------------------------------------------------------------------
SetItem(d, key, value) ==
    Dict([k \in DOMAIN d.m \cup {key} |-> IF k = key THEN value ELSE d.m[k]])

MutationKeys == {"cameraID", "stationaryMovement", "injected"}

Mutations(d) ==
    {SetItem(d, key, Str("mutated")) : key \in MutationKeys}
    \cup {SetItem(d, c, SetItem(d.m[c], key, Str("mutated"))) :
             c \in {k \in DOMAIN d.m : isinstance_dict(d.m[k])}, key \in MutationKeys}

CallerMutate ==
    /\ Constructed
    /\ calls < MaxCalls
    /\ isinstance_dict(held.val)
    /\ \E mutated \in Mutations(held.val) :
         /\ held' = [held EXCEPT !.val = mutated]
         /\ settings' = IF held.ref = "settings" THEN mutated
                         ELSE IF held.ref \in DOMAIN settings.m
                              THEN [settings EXCEPT !.m[held.ref] = mutated]
                              ELSE settings
         /\ last' = Call("mutate", "", mutated, "ok")
    /\ calls' = calls + 1
    /\ UNCHANGED <<phase, disk, vStream, robot, vision, initLog, closeLog, writes>>

\* ------------------------------------------------------------------------
\* Environment.close
\* ------------------------------------------------------------------------
close(rb, vi, vs, o1, o2, o3) ==
    IF o1 = "raise"
    THEN [robot |-> rb, vision |-> vi, vStream |-> vs,
          log |-> <<"robot.setExiting">>, result |-> "robot.setExiting raised"]
    ELSE IF o2 = "raise"
    THEN [robot |-> setExiting(rb, o1), vision |-> vi, vStream |-> vs,
          log |-> <<"robot.setExiting", "vision.setExiting">>, result |-> "vision.setExiting raised"]
    ELSE [robot |-> setExiting(rb, o1), vision |-> setExiting(vi, o2), vStream |-> endThread(vs, o3),
          log |-> <<"robot.setExiting", "vision.setExiting", "vStream.endThread">>,
          result |-> IF o3 = "raise" THEN "vStream.endThread raised" ELSE "ok"]

Close ==
    /\ Constructed
    /\ calls < MaxCalls
    /\ \E o1 \in SignalOutcomes, o2 \in SignalOutcomes, o3 \in SignalOutcomes :
         LET r == close(robot, vision, vStream, o1, o2, o3)
         IN  /\ robot' = r.robot
             /\ vision' = r.vision
             /\ vStream' = r.vStream
             /\ closeLog' = r.log
             /\ last' = Call("close", "", None, r.result)
    /\ phase' = "Closed"
    /\ calls' = calls + 1
    /\ UNCHANGED <<disk, settings, initLog, writes, held>>

\* The robot's background loop polls its exiting flag and stops
loopExit(rb) == [rb EXCEPT !.running = FALSE]

WorkerExit ==
    /\ robot.running
    /\ robot.exiting
    /\ robot' = loopExit(robot)
    /\ last' = Call("workerExit", "", None, "ok")
    /\ UNCHANGED <<phase, disk, settings, vStream, vision, initLog, closeLog, writes, calls, held>>

\* ------------------------------------------------------------------------
\* Files the Environment may find at settingsPath
\* ------------------------------------------------------------------------
LeafValues == {None, Num("1"), Str("2"), List("")}

NestedKeyPool == {"stationaryMovement", "extraNested"}

Bounded(S, n) == {T \in SUBSET S : Cardinality(T) <= n}

NestedDicts ==
    {Dict(f) : f \in UNION {[T -> LeafValues \cup {Dict(NoItems)}] : T \in Bounded(NestedKeyPool, MaxNestedKeys)}}

TopKeyPool == {"cameraID", "motionCalibrations", "extraTop"}

DictDocs ==
    {Dict(f) : f \in UNION {[T -> LeafValues \cup NestedDicts] : T \in Bounded(TopKeyPool, MaxDocKeys)}}

OtherDocs == {None, True, Num("1"), Str("2"), Str("robotID"), List(""), List("cameraID")}

FileErrors == {FileAbsent, FileUnreadable, FileMalformed}

LoadFiles == FileErrors \cup DictDocs \cup OtherDocs

SpecFiles ==
    FileErrors \cup
    {Dict([k \in {"cameraID"} |-> Str("2")]),
     Dict([k \in {"cameraID", "robotID"} |-> IF k = "cameraID" THEN Num("1") ELSE Str("COM3")]),
     Dict([k \in {"robotID", "extraTop"} |-> Str("COM3")]),
     Dict([k \in {"motionCalibrations"} |-> Dict([j \in {"stationaryMovement"} |-> Num("1")])]),
     Dict([k \in {"consoleSettings"} |-> Num("1")]),
     Num("1")}

\* ------------------------------------------------------------------------
\* Specifications
\* ------------------------------------------------------------------------
InitWith(files) ==
    /\ phase = "Uninitialized"
    /\ disk \in files
    /\ settings = NoDoc
    /\ vStream = NewVideoStream
    /\ robot = NewRobot
    /\ vision = NewVision
    /\ initLog = <<>>
    /\ closeLog = <<>>
    /\ writes = 0
    /\ calls = 0
    /\ last = Call("none", "", None, "")
    /\ held = [val |-> None, ref |-> "own"]

Init == InitWith(SpecFiles)

Next ==
    \/ Construct
    \/ UpdateSettings
    \/ GetSettings
    \/ GetSetting
    \/ CallerMutate
    \/ Close
    \/ WorkerExit

Spec == Init /\ [][Next]_vars

\* Start-up alone, on every generated file
InitLoad == InitWith(LoadFiles)

NextLoad == Construct

SpecLoad == InitLoad /\ [][NextLoad]_vars

\* ------------------------------------------------------------------------
\* Properties
\* ------------------------------------------------------------------------
Called(log, call) == \E i \in DOMAIN log : log[i].call = call

ArgOf(log, call) == log[CHOOSE i \in DOMAIN log : log[i].call = call].arg

\* C1: every close() signals the robot, the vision object and the video
\* stream, each exactly once and in that order, also when an earlier signal
\* raises.
C1_CloseSignalsAllInOrder ==
    last.op = "close" =>
        closeLog = <<"robot.setExiting", "vision.setExiting", "vStream.endThread">>

\* An activation was attempted during __init__ and the handle is not configured
CameraActivationFailed == Called(initLog, "setNewCamera") /\ vStream.camera = None

RobotActivationFailed == Called(initLog, "setUArm") /\ robot.uArm = None

\* C2: when the saved cameraID or robotID is non-null and its activation
\* fails, by reporting failure or by raising, __init__ still completes: the
\* remaining steps run (the robot activation after a failed camera
\* activation), the Environment is Ready, the identifier stays in the settings.
C2_ActivationFailureNotFatal ==
    (last.op = "__init__" /\ (CameraActivationFailed \/ RobotActivationFailed)) =>
        /\ phase = "Ready"
        /\ CameraActivationFailed => settings.m["cameraID"] = ArgOf(initLog, "setNewCamera")
        /\ RobotActivationFailed => settings.m["robotID"] = ArgOf(initLog, "setUArm")
        /\ settings.m["robotID"] # None => Called(initLog, "setUArm")

\* doc has every key path of default, a dict where default has a dict and a
\* value that is not a dict where default has none
RECURSIVE SameShape(_, _)
SameShape(default, doc) ==
    IF isinstance_dict(default)
    THEN /\ isinstance_dict(doc)
         /\ DOMAIN default.m \subseteq DOMAIN doc.m
         /\ \A k \in DOMAIN default.m : SameShape(default.m[k], doc.m[k])
    ELSE ~isinstance_dict(doc)

\* The file held JSON text and __loadSettings returned a document
Loaded == last.op = "__init__" /\ ~IsFileError(disk) /\ last.result # "TypeError"

\* C3: after __loadSettings on a parseable file, every key path of the default
\* schema is in self.__settings with a value of the default's shape, also
\* when the file holds a scalar where the schema has a mapping.
C3_LoadedKeepsSchemaShape ==
    Loaded => SameShape(defaultSettings, settings)

\* C4: with the settings file missing, unreadable or not parseable,
\* __loadSettings returns the default schema untouched and raises nothing.
C4_FileErrorGivesDefaults ==
    (last.op = "__init__" /\ IsFileError(disk)) =>
        /\ settings = defaultSettings
        /\ settings.m["robotID"] = None /\ settings.m["cameraID"] = None
        /\ last.result = "ok"
        /\ phase = "Ready"

C4_Witness ==
    /\ last.op = "__init__"
    /\ disk = FileMalformed
    /\ phase = "Ready"
    /\ settings = defaultSettings

\* C5: for every parseable file, whatever the type of its top-level value and
\* of its nested values, __loadSettings returns a document and __init__ does
\* not end with an error.
C5_NoLoadOutcomeFatal ==
    (last.op = "__init__" /\ ~IsFileError(disk)) =>
        /\ last.result # "TypeError"
        /\ settings # NoDoc

\* doc has exactly the keys of default wherever default has a dict
RECURSIVE ExactKeys(_, _)
ExactKeys(default, doc) ==
    isinstance_dict(default) =>
        /\ isinstance_dict(doc)
        /\ DOMAIN doc.m = DOMAIN default.m
        /\ \A k \in DOMAIN default.m : ExactKeys(default.m[k], doc.m[k])

\* file has a key default does not have, at the top or in a nested category
HasUnknownKey(default, file) ==
    /\ isinstance_dict(file)
    /\ \/ DOMAIN file.m \ DOMAIN default.m # {}
       \/ \E k \in DOMAIN file.m \cap DOMAIN default.m :
            /\ isinstance_dict(file.m[k]) /\ isinstance_dict(default.m[k])
            /\ DOMAIN file.m[k].m \ DOMAIN default.m[k].m # {}

\* C6: for every loaded document with keys unknown to the schema, the result
\* of __loadSettings has exactly the schema's keys at every level, whatever
\* else the document holds.
C6_UnknownKeysDropped ==
    (Loaded /\ HasUnknownKey(defaultSettings, disk)) => ExactKeys(defaultSettings, settings)

\* The step is a call of updateSettings
UpdateStep == last'.op = "updateSettings"

\* The step is a call of updateSettings on a category of the settings
UpdateOfCategory == UpdateStep /\ last'.category \in DOMAIN settings.m

\* C7: updateSettings(category, None) is a no-op for every category and every
\* current value: nothing is written and self.__settings is unchanged.
C7_NullUpdateIsNoOp ==
    [][(UpdateStep /\ last'.value = None) =>
            /\ settings' = settings
            /\ disk' = disk
            /\ writes' = writes]_vars

C7_Witness ==
    /\ last.op = "updateSettings"
    /\ last.value = None
    /\ last.category = "cameraID"
    /\ last.result = "unchanged"
    /\ settings.m["cameraID"] # None

\* C8 as stated: a call writes exactly when its value is non-null and differs
\* from the category's current value, a value structurally equal to the
\* current one being reported unchanged.
C8_WritesIffValueDiffers ==
    [][UpdateOfCategory =>
            ((writes' = writes + 1) <=>
                (last'.value # None /\ last'.value # settings.m[last'.category]))]_vars

\* C8 amended: a call either writes once or changes nothing and reports
\* unchanged; it writes exactly when its value is not None and not equal, by
\* Python's ==, to the current value (True == 1 and False == 0 included); the
\* second of two consecutive calls with the same category and value never
\* writes.
C8_WritesIffNotPyEqual ==
    [][UpdateOfCategory =>
            /\ (writes' = writes + 1) <=>
                    (last'.value # None /\ ~PyEq(settings.m[last'.category], last'.value))
            /\ writes' # writes + 1 =>
                    /\ writes' = writes
                    /\ settings' = settings
                    /\ disk' = disk
                    /\ last'.result = "unchanged"
            /\ (last'.value # None /\ last'.value = settings.m[last'.category]) =>
                    last'.result = "unchanged"
            /\ (last.op = "updateSettings" /\ last.category = last'.category /\ last.value = last'.value) =>
                    writes' = writes]_vars

C8_Witness ==
    /\ last.op = "updateSettings"
    /\ last.result = "unchanged"
    /\ last.value = Str("5")
    /\ last.category = "cameraID"
    /\ settings.m["cameraID"] = Str("5")
    /\ writes = 1
    /\ calls = 2

\* C9: when the write of an accepted updateSettings call fails, the caller
\* gets the error and self.__settings already holds the new value, which a
\* later getSetting returns.
C9_FailedWriteKeepsMemoryUpdate ==
    [][(UpdateStep /\ writes' = writes + 1 /\ disk' # jsonDump(settings')) =>
            /\ last'.result = "IOError"
            /\ settings'.m[last'.category] = last'.value
            /\ getSetting(settings', last'.category).val = last'.value]_vars

C9_Witness ==
    /\ last.op = "updateSettings"
    /\ last.result = "IOError"
    /\ disk = FileMalformed
    /\ last.value = Str("5")
    /\ settings.m[last.category] = Str("5")

\* C10: no caller holds the live settings: changing what getSettings or
\* getSetting returned, or the object passed to updateSettings, changes
\* neither self.__settings nor the file.
C10_NoAliasOfSettings ==
    [][/\ held'.ref = "own"
       /\ last'.op = "mutate" =>
            /\ settings' = settings
            /\ disk' = disk
            /\ getSettings(settings').val = getSettings(settings).val]_vars

C10_Witness ==
    /\ last.op = "mutate"
    /\ isinstance_dict(settings)
    /\ DOMAIN held.val.m = DOMAIN settings.m
    /\ held.val # settings

\* The place of a call in the order of __init__
Rank(call) ==
    CASE call = "Global.init" -> 1
      [] call = "__loadSettings" -> 2
      [] call \in {"VideoStream", "Robot", "Vision", "ObjectManager"} -> 3
      [] call = "setNewCamera" -> 4
      [] call = "setUArm" -> 5

\* C11: in every construction Global.init comes before any collaborator is
\* constructed, the settings are loaded before any handle is constructed or
\* activated, the four handles are constructed before any activation, and
\* the camera activation is attempted before the robot activation.
C11_ConstructionOrder ==
    /\ \A i, j \in DOMAIN initLog : i < j => Rank(initLog[i].call) <= Rank(initLog[j].call)
    /\ \A i, j \in DOMAIN initLog :
          (i < j /\ Rank(initLog[i].call) # 3) => Rank(initLog[i].call) < Rank(initLog[j].call)
    /\ initLog # <<>> => initLog[1].call = "Global.init"
    /\ (\E i \in DOMAIN initLog : Rank(initLog[i].call) >= 3) => Called(initLog, "__loadSettings")
    /\ (Called(initLog, "setNewCamera") \/ Called(initLog, "setUArm")) =>
          \A c \in {"VideoStream", "Robot", "Vision", "ObjectManager"} : Called(initLog, c)

C11_Witness ==
    /\ phase = "Ready"
    /\ Called(initLog, "setNewCamera")
    /\ Called(initLog, "setUArm")
    /\ Len(initLog) = 8

\* C12: during construction a handle's activation is invoked if and only if
\* its identifier in the loaded settings is not None (setNewCamera for
\* cameraID, setUArm for robotID), and with that identifier; with the
\* settings file absent neither is invoked and the Environment is Ready
\* with both handles unconfigured.
C12_ActivatedIffIdentifier ==
    /\ (last.op = "__init__" /\ settings # NoDoc) =>
          /\ Called(initLog, "setNewCamera") <=> settings.m["cameraID"] # None
          /\ Called(initLog, "setNewCamera") => ArgOf(initLog, "setNewCamera") = settings.m["cameraID"]
          /\ Called(initLog, "setUArm") <=> settings.m["robotID"] # None
          /\ Called(initLog, "setUArm") => ArgOf(initLog, "setUArm") = settings.m["robotID"]
    /\ (last.op = "__init__" /\ disk = FileAbsent) =>
          /\ phase = "Ready"
          /\ ~Called(initLog, "setNewCamera") /\ ~Called(initLog, "setUArm")
          /\ vStream.camera = None /\ robot.uArm = None

\* C13: close() does not return before every handle it signalled has stopped:
\* when close() has returned, no background loop of the robot, the vision
\* object or the video stream is running.
C13_CloseWaitsForLoops ==
    (last.op = "close" /\ last.result = "ok") => (~robot.running /\ ~vStream.running)

\* C14: the Environment moves only along Uninitialized, Constructing, Ready,
\* ShuttingDown, Closed; settings calls are valid in Ready only, so after
\* close() an updateSettings call changes neither self.__settings nor the
\* file, and nothing takes the Environment out of Closed.
C14_ClosedRejectsUpdates ==
    [][/\ phase = "Closed" => phase' = "Closed"
       /\ phase = "Uninitialized" => phase' \in {"Ready", "Aborted"}
       /\ (phase = "Closed" /\ UpdateStep) =>
            /\ settings' = settings
            /\ disk' = disk
            /\ writes' = writes]_vars

\* doc has the keys of the schema at every level and no dict at a leaf
Conforms(doc) == SameShape(defaultSettings, doc) /\ ExactKeys(defaultSettings, doc)

\* x holds no value that json.dump writes as another one
RECURSIVE JsonExact(_)
JsonExact(x) ==
    /\ x.t # "tuple"
    /\ isinstance_dict(x) => \A k \in DOMAIN x.m : JsonExact(x.m[k])

\* The latest call was an updateSettings that wrote the file completely
Saved == last.op = "updateSettings" /\ last.result = "saved"

\* C15 as stated: for every document that conforms to the schema, whatever
\* the values at its leaves, writing it with the persist step of
\* updateSettings and loading the file again yields an equal document.
C15_RoundTripAnyLeaves ==
    (Saved /\ Conforms(settings)) => loadSettings(disk) = [err |-> "none", doc |-> settings]

\* C15 amended: the round trip yields an equal document for every conforming
\* document whose leaf values JSON holds as they are (no tuple).
C15_RoundTripJsonLeaves ==
    (Saved /\ Conforms(settings) /\ JsonExact(settings)) =>
        loadSettings(disk) = [err |-> "none", doc |-> settings]

C15_Witness ==
    /\ Saved
    /\ Conforms(settings)
    /\ JsonExact(settings)
    /\ settings.m["motionCalibrations"].m["stationaryMovement"] = Num("1")
    /\ settings.m["cameraID"] = Str("5")

\* The value the file holds for the leaf j of the nested category k, or the
\* default when the file has none
NestedLeaf(file, k, j) ==
    IF k \in DOMAIN file.m /\ isinstance_dict(file.m[k]) /\ j \in DOMAIN file.m[k].m
    THEN file.m[k].m[j]
    ELSE defaultSettings.m[k].m[j]

\* C16: for every loaded mapping document that lacks some top-level or
\* nested schema keys, __loadSettings sets each missing leaf to its default
\* and each present leaf to the loaded value; reconciling the default schema
\* itself yields the default schema.
C16_MissingLeavesDefaulted ==
    /\ (Loaded /\ isinstance_dict(disk)) =>
          \A k \in DOMAIN defaultSettings.m :
              IF isinstance_dict(defaultSettings.m[k])
              THEN /\ isinstance_dict(settings.m[k])
                   /\ \A j \in DOMAIN defaultSettings.m[k].m :
                         /\ j \in DOMAIN settings.m[k].m
                         /\ settings.m[k].m[j] = NestedLeaf(disk, k, j)
              ELSE settings.m[k] = IF k \in DOMAIN disk.m THEN disk.m[k] ELSE defaultSettings.m[k]
    /\ loadSettings(defaultSettings) = [err |-> "none", doc |-> defaultSettings]

\* C17: in updateDictionary the shape of the default's value decides between
\* recursing and overwriting: where the default holds a nested mapping the
\* result is the reconciled mapping, and where the default holds a scalar the
\* result holds the loaded value whatever its type, a mapping included.
C17_DefaultShapeGoverns ==
    (last.op = "__init__" /\ isinstance_dict(disk)) =>
        /\ settings # NoDoc
        /\ \A k \in DOMAIN defaultSettings.m \cap DOMAIN disk.m :
              IF isinstance_dict(defaultSettings.m[k])
              THEN /\ isinstance_dict(settings.m[k])
                   /\ DOMAIN settings.m[k].m = DOMAIN defaultSettings.m[k].m
              ELSE settings.m[k] = disk.m[k]

\* C18: once an updateSettings call has saved the document, an Environment
\* constructed on the same settings path loads a document equal to the one
\* in memory, whatever value the caller passed (a partial mapping for a
\* nested category and a mapping for a scalar category included).
C18_RestartLoadsMemoryDocument ==
    Saved => /\ loadSettings(disk).err = "none"
             /\ loadSettings(disk).doc = settings

\* C19: a failure during the disk write of updateSettings never loses the
\* settings saved before: afterwards the file holds the complete previous
\* document or the complete new one, so a later load does not fall back to
\* the defaults.
C19_FailedWriteKeepsFile ==
    [][(UpdateStep /\ last'.result = "IOError") =>
            /\ disk' \in {disk, jsonDump(settings')}
            /\ (~IsFileError(disk) => ~IsFileError(disk'))]_vars

\* C20: an accepted updateSettings(K, v) changes only category K of
\* self.__settings; a call that names a category the dictionary does not have
\* fails and changes neither self.__settings nor the file; hence the
\* top-level keys of self.__settings are the keys of the default schema in
\* every state where the dictionary exists.
C20_OnlyCategoryChanges ==
    /\ [](settings # NoDoc => DOMAIN settings.m = DOMAIN defaultSettings.m)
    /\ [][UpdateStep =>
            /\ (last'.category \notin DOMAIN defaultSettings.m) <=> (last'.result = "KeyError")
            /\ last'.result = "KeyError" => (settings' = settings /\ disk' = disk)
            /\ last'.result = "unchanged" => settings' = settings
            /\ last'.result \in {"saved", "IOError"} =>
                  /\ settings'.m[last'.category] = last'.value
                  /\ \A k \in DOMAIN settings.m \ {last'.category} :
                        settings'.m[k] = settings.m[k]]_vars

\* An update of cameraID was saved while another category held a value that
\* an earlier update had stored
C20_Witness ==
    /\ Saved
    /\ last.category = "cameraID"
    /\ settings.m["cameraID"] = Str("5")
    /\ settings.m["motionCalibrations"] = Dict([k \in {"stationaryMovement"} |-> Num("1")])

====
